---- MODULE Spec2Model ----
(***************************************************************************)
(* Model of internal/syncer/git_refs.go: the handler of one "sync git      *)
(* refs" job (handleGitRefs) and its bulk insert (sendBatchGitRefs), run   *)
(* by two concurrent workers against one PostgreSQL store.                 *)
(*                                                                         *)
(* Each worker handles one job at a time and may take a new one when the   *)
(* handler has returned; the queue row and the log entries of a job are    *)
(* tracked while the job is being handled.                                 *)
(*                                                                         *)
(* The store is modelled at the level the handler uses it: transactions    *)
(* opened with pgx.TxOptions{} (the server default, READ COMMITTED), one   *)
(* DELETE, one COPY, one status UPDATE and a COMMIT.  A statement sees the *)
(* rows committed when it starts; a DELETE waits for a concurrent          *)
(* transaction that has deleted one of its rows and then skips the rows    *)
(* that are gone.  tx.snap holds the tuples of the DELETE's snapshot that  *)
(* are still in the table: a commit that deletes them takes them out, and  *)
(* a row inserted later with the same content is a different tuple.        *)
(***************************************************************************)
EXTENDS Integers, Sequences, FiniteSets, TLC

\* ---------------------------------------------------------------- bounds
NumRefs == 2          \* distinct refs an extraction can return

Workers == {"w1", "w2"}
Repos == {"r1", "r2"}

\* ------------------------------------------------------------------ refs
\* sql.NullString
NullString(valid, s) == [Valid |-> valid, String |-> s]
Absent == NullString(FALSE, "")
Present(s) == NullString(TRUE, s)

\* The rows the table-valued function refs(?) returns for the clone, each
\* with the value COMMIT_FROM_TAG(tag) has for it: the commit the tag object
\* annotates, or NULL.
RefsTable ==
  << [FullName |-> Present("refs/heads/main"), Hash |-> Present("h1"),
      Name |-> Present("main"), Remote |-> Absent, Target |-> Absent,
      Type |-> Present("branch"), CommitFromTag |-> Absent],
     [FullName |-> Present("refs/tags/v1"), Hash |-> Present("t1"),
      Name |-> Present("v1"), Remote |-> Present(""), Target |-> Absent,
      Type |-> Present("tag"), CommitFromTag |-> Present("c1")],
     [FullName |-> Present("refs/heads/main"), Hash |-> Present("h2"),
      Name |-> Present("main"), Remote |-> Absent, Target |-> Absent,
      Type |-> Present("branch"), CommitFromTag |-> Absent],
     [FullName |-> Present("HEAD"), Hash |-> Absent,
      Name |-> Present("HEAD"), Remote |-> Absent, Target |-> Present("refs/heads/main"),
      Type |-> Absent, CommitFromTag |-> Absent] >>

\* The same row when COMMIT_FROM_TAG has no commit to give.
Unresolved(row) == [row EXCEPT !.CommitFromTag = Absent]
RawUniverse ==
  {RefsTable[i] : i \in 1..NumRefs} \cup {Unresolved(RefsTable[i]) : i \in 1..NumRefs}

COALESCE(a, b) == IF a.Valid THEN a ELSE b

\* Mutant: the tag's commit is not replaced by the hash when it is NULL.
selectRefsNoFallback(row) ==
  [FullName |-> row.FullName, Hash |-> row.Hash, Name |-> row.Name,
   Remote |-> row.Remote, Target |-> row.Target, Type |-> row.Type,
   TagCommitHash |-> IF row.Type = Present("tag") THEN row.CommitFromTag ELSE Absent]

\* SELECT *, (CASE type WHEN 'tag' THEN COALESCE(COMMIT_FROM_TAG(tag), hash) END)
\*   AS tag_commit_hash FROM refs(?), scanned into a ref struct.
selectRefs(row) ==
  [FullName |-> row.FullName, Hash |-> row.Hash, Name |-> row.Name,
   Remote |-> row.Remote, Target |-> row.Target, Type |-> row.Type,
   TagCommitHash |->
     IF row.Type = Present("tag") THEN COALESCE(row.CommitFromTag, row.Hash)
     ELSE Absent]

\* type ref struct: the rows the extraction query can return.
AllRefs == [i \in 1..4 |-> selectRefs(RefsTable[i])]
RefUniverse == {selectRefs(row) : row \in RawUniverse}

\* Within one extraction full_name values are unique.
UniqueNames(b) == \A x, y \in b : x.FullName = y.FullName => x = y
RawBatches == {b \in SUBSET RawUniverse : UniqueNames(b)}
Batches == {{selectRefs(row) : row \in b} : b \in RawBatches}

\* One appended column of the COPY input: the string, or nil.
NULL == <<>>
\* Mutant: the String of the field is appended whether it is Valid or not.
ColumnString(ns) == <<ns.String>>

Column(ns) == IF ns.Valid THEN <<ns.String>> ELSE NULL

\* The input row sendBatchGitRefs builds for one ref.
InputRow(repoID, r) ==
  [repo_id |-> repoID, full_name |-> r.FullName.String, name |-> r.Name.String,
   hash |-> Column(r.Hash), remote |-> Column(r.Remote),
   target |-> Column(r.Target), type |-> Column(r.Type),
   tag_commit_hash |-> Column(r.TagCommitHash)]

\* Mutant: inputs is appended to after the loop, with the last row only.
InputsLastOnly(repoID, batch) ==
  IF batch = {} THEN {} ELSE {InputRow(repoID, CHOOSE r \in batch : TRUE)}

\* inputs: one row for each ref of the batch.
Inputs(repoID, batch) == {InputRow(repoID, r) : r \in batch}

\* ---------------------------------------------------------------- errors
\* An error value is the chain of its messages, outermost first; nil is <<>>.
nil == <<>>
Err(msg) == <<msg>>
Errorf(prefix, err) == <<prefix>> \o err

\* ----------------------------------------------------------------- state
VARIABLES
  pc,          \* position of each worker in handleGitRefs
  jobRepo,     \* j.RepoID of the job the worker handles
  tmpPath,     \* whether the worker's temp directory exists on disk
  repo,        \* the libgit2 handle: "none", "open" or "freed"
  rawRefs,     \* the rows of refs(?) the extraction query read
  refs,        \* the extracted batch
  defers,      \* the stack of deferred calls of the running handler
  ret,         \* the value handleGitRefs returns
  tx,          \* the worker's pgx.Tx and what it has written
  errLog,      \* what the run has written through w.logger.Err
  store,       \* committed rows of table git_refs
  jobStatus,   \* committed status of the job the worker handles
  syncLogs,    \* entries of the sync log sink for the job the worker handles
  trace,       \* history: the calls the running handler has made, in order
  before,      \* history: the committed rows of git_refs when the run began
  applied,     \* history: the job's delete and insert have been committed
  rivals,      \* history: how many other jobs committed to j.RepoID while
               \* the transaction was open (2: more than one)
  lastSync     \* history: per repository, the refs of its last committed
               \* sync, the rows it left, and whether the sync committed
               \* before it had extracted the same refs

vars == <<pc, jobRepo, tmpPath, repo, rawRefs, refs, defers, ret, tx, errLog,
          store, jobStatus, syncLogs, trace, before, applied, rivals, lastSync>>

local == <<jobRepo, tmpPath, repo, rawRefs, refs, defers, tx>>
db == <<store, jobStatus, applied, lastSync>>
history == <<before, rivals>>

NoTx == [state |-> "none", closed |-> FALSE, snap |-> {}, del |-> {}, ins |-> {}, done |-> FALSE]
NoLogs == [starting |-> 0, finished |-> 0]
NoSync == [runs |-> 0, refs |-> {}, rows |-> {}]

\* Rows a reader of the committed store sees for one repository.
Stored(s, repoID) == {x \in s : x.repo_id = repoID}

\* What earlier syncs have left in the table.
InitialStores ==
  {Inputs("r1", b) \cup Inputs("r2", {AllRefs[1]}) : b \in Batches}

Init ==
  /\ pc = [w \in Workers |-> "idle"]
  /\ jobRepo = [w \in Workers |-> "r1"]
  /\ tmpPath = [w \in Workers |-> FALSE]
  /\ repo = [w \in Workers |-> "none"]
  /\ rawRefs = [w \in Workers |-> {}]
  /\ refs = [w \in Workers |-> {}]
  /\ defers = [w \in Workers |-> <<>>]
  /\ ret = [w \in Workers |-> nil]
  /\ tx = [w \in Workers |-> NoTx]
  /\ errLog = [w \in Workers |-> {}]
  /\ store \in InitialStores
  /\ jobStatus = [w \in Workers |-> "QUEUED"]
  /\ syncLogs = [w \in Workers |-> NoLogs]
  /\ trace = [w \in Workers |-> <<>>]
  /\ before = [w \in Workers |-> {}]
  /\ applied = [w \in Workers |-> FALSE]
  /\ rivals = [w \in Workers |-> 0]
  /\ lastSync = [r \in Repos |-> NoSync]

\* ------------------------------------------------------- control helpers
Call(w, name) == trace' = [trace EXCEPT ![w] = Append(@, name)]
Goto(w, next) == pc' = [pc EXCEPT ![w] = next] /\ ret' = ret
\* return err: the result is fixed, then the deferred calls run.
Return(w, err) == pc' = [pc EXCEPT ![w] = "return"] /\ ret' = [ret EXCEPT ![w] = err]
Defer(w, name) == defers' = [defers EXCEPT ![w] = Append(@, name)]
Top(w) == defers[w][Len(defers[w])]
Pop(w) == defers' = [defers EXCEPT ![w] = SubSeq(@, 1, Len(@) - 1)]

\* The worker takes a job off the queue (db.DequeueSyncJobRow), which is
\* RUNNING from then on, and calls the handler.
Dequeue(w) ==
  /\ pc[w] \in {"idle", "returned"}
  /\ \E r \in Repos :
       /\ jobRepo' = [jobRepo EXCEPT ![w] = r]
       /\ before' = [before EXCEPT ![w] = store]
  /\ jobStatus' = [jobStatus EXCEPT ![w] = "RUNNING"]
  /\ pc' = [pc EXCEPT ![w] = "MkdirTemp"]
  /\ UNCHANGED <<tmpPath, repo, rawRefs, refs, defers, ret, tx, errLog, store, syncLogs,
                 trace, applied, rivals, lastSync>>

\* Mutant: the removal of the directory is not deferred.
MkdirTempNoDefer(w) ==
  /\ pc[w] = "MkdirTemp"
  /\ Call(w, "MkdirTemp")
  /\ \/ /\ Return(w, Err("mkdir temp"))
        /\ UNCHANGED tmpPath
     \/ /\ tmpPath' = [tmpPath EXCEPT ![w] = TRUE]
        /\ Goto(w, "fetchGitHubTokenFromDB")
  /\ UNCHANGED <<jobRepo, repo, rawRefs, refs, defers, tx, errLog, db, syncLogs, history>>

\* tmpPath, err := os.MkdirTemp(...); defer os.RemoveAll(tmpPath)
MkdirTemp(w) ==
  /\ pc[w] = "MkdirTemp"
  /\ Call(w, "MkdirTemp")
  /\ \/ /\ Return(w, Err("mkdir temp"))
        /\ UNCHANGED <<tmpPath, defers>>
     \/ /\ tmpPath' = [tmpPath EXCEPT ![w] = TRUE]
        /\ Defer(w, "RemoveAll")
        /\ Goto(w, "fetchGitHubTokenFromDB")
  /\ UNCHANGED <<jobRepo, repo, rawRefs, refs, tx, errLog, db, syncLogs, history>>

\* Mutant: the handler goes on to the clone when the token cannot be fetched.
fetchGitHubTokenFromDBGoesOn(w) ==
  /\ pc[w] = "fetchGitHubTokenFromDB"
  /\ Call(w, "fetchGitHubTokenFromDB")
  /\ \/ /\ ret' = [ret EXCEPT ![w] = Err("fetch token")]
        /\ pc' = [pc EXCEPT ![w] = "cloneRepo"]
     \/ Goto(w, "cloneRepo")
  /\ UNCHANGED <<local, errLog, db, syncLogs, history>>

\* ghToken, err = w.fetchGitHubTokenFromDB(ctx)
fetchGitHubTokenFromDB(w) ==
  /\ pc[w] = "fetchGitHubTokenFromDB"
  /\ Call(w, "fetchGitHubTokenFromDB")
  /\ \/ Return(w, Err("fetch token"))
     \/ Goto(w, "cloneRepo")
  /\ UNCHANGED <<local, errLog, db, syncLogs, history>>

\* Mutant: a failed clone is tried once more.
cloneRepoRetried(w) ==
  /\ pc[w] = "cloneRepo"
  /\ Call(w, "cloneRepo")
  /\ \/ /\ IF Len(trace[w]) < 4
             THEN UNCHANGED <<pc, ret>>
             ELSE Return(w, Errorf("git clone", Err("clone")))
        /\ UNCHANGED <<repo, defers>>
     \/ /\ repo' = [repo EXCEPT ![w] = "open"]
        /\ Defer(w, "Free")
        /\ Goto(w, "startLog")
  /\ UNCHANGED <<jobRepo, tmpPath, rawRefs, refs, tx, errLog, db, syncLogs, history>>

\* repo, err = w.cloneRepo(...); defer repo.Free()
cloneRepo(w) ==
  /\ pc[w] = "cloneRepo"
  /\ Call(w, "cloneRepo")
  /\ \/ /\ Return(w, Errorf("git clone", Err("clone")))
        /\ UNCHANGED <<repo, defers>>
     \/ /\ repo' = [repo EXCEPT ![w] = "open"]
        /\ Defer(w, "Free")
        /\ Goto(w, "startLog")
  /\ UNCHANGED <<jobRepo, tmpPath, rawRefs, refs, tx, errLog, db, syncLogs, history>>

\* w.sendBatchLogMessages(ctx, batch): the batch reaches the log sink as a
\* group or not at all.  It is given no transaction: the entry is written
\* outside the handler's transaction and stays when that is rolled back.
sendBatchLogMessages(logs, w, kind) ==
  [logs EXCEPT ![w] = [@ EXCEPT ![kind] = @ + 1]]

\* "starting ... sync" log
startLog(w) ==
  /\ pc[w] = "startLog"
  /\ Call(w, "startLog")
  /\ \/ /\ Return(w, Errorf("log messages", Err("log sink")))
        /\ UNCHANGED syncLogs
     \/ /\ syncLogs' = sendBatchLogMessages(syncLogs, w, "starting")
        /\ Goto(w, "SelectContext")
  /\ UNCHANGED <<local, errLog, db, history>>

\* Mutant: with no refs extracted the handler returns nil at once.
SelectContextSkipsEmpty(w) ==
  /\ pc[w] = "SelectContext"
  /\ Call(w, "SelectContext")
  /\ \/ /\ Return(w, Err("select refs"))
        /\ UNCHANGED <<rawRefs, refs>>
     \/ /\ \E b \in RawBatches :
             /\ rawRefs' = [rawRefs EXCEPT ![w] = b]
             /\ refs' = [refs EXCEPT ![w] = {selectRefs(row) : row \in b}]
             /\ IF b = {} THEN Return(w, nil) ELSE Goto(w, "BeginTx")
  /\ UNCHANGED <<jobRepo, tmpPath, repo, defers, tx, errLog, db, syncLogs, history>>

\* w.mergestat.SelectContext(ctx, &refs, selectRefs, tmpPath)
SelectContext(w) ==
  /\ pc[w] = "SelectContext"
  /\ Call(w, "SelectContext")
  /\ \/ /\ Return(w, Err("select refs"))
        /\ UNCHANGED <<rawRefs, refs>>
     \/ /\ \E b \in RawBatches :
             /\ rawRefs' = [rawRefs EXCEPT ![w] = b]
             /\ refs' = [refs EXCEPT ![w] = {selectRefs(row) : row \in b}]
        /\ Goto(w, "BeginTx")
  /\ UNCHANGED <<jobRepo, tmpPath, repo, defers, tx, errLog, db, syncLogs, history>>

\* Mutant: the rollback is run last of the deferred calls.
BeginTxRollbackLast(w) ==
  /\ pc[w] = "BeginTx"
  /\ Call(w, "BeginTx")
  /\ \/ /\ Return(w, Err("begin"))
        /\ UNCHANGED <<tx, defers>>
     \/ /\ tx' = [tx EXCEPT ![w] = [NoTx EXCEPT !.state = "open"]]
        /\ defers' = [defers EXCEPT ![w] = <<"Rollback">> \o @]
        /\ Goto(w, "Delete")
  /\ UNCHANGED <<jobRepo, tmpPath, repo, rawRefs, refs, errLog, db, syncLogs, history>>

\* tx, err = w.pool.BeginTx(ctx, pgx.TxOptions{}); defer tx.Rollback(ctx)
BeginTx(w) ==
  /\ pc[w] = "BeginTx"
  /\ Call(w, "BeginTx")
  /\ \/ /\ Return(w, Err("begin"))
        /\ UNCHANGED <<tx, defers>>
     \/ /\ tx' = [tx EXCEPT ![w] = [NoTx EXCEPT !.state = "open"]]
        /\ Defer(w, "Rollback")
        /\ Goto(w, "Delete")
  /\ UNCHANGED <<jobRepo, tmpPath, repo, rawRefs, refs, errLog, db, syncLogs, history>>

\* Tuples of the statement's snapshot that another open transaction has
\* deleted: the DELETE waits for that transaction to end.
RowLocked(w, tuples) ==
  \E v \in Workers \ {w} : tx[v].state = "open" /\ tx[v].del \cap tuples # {}

\* Mutant: the DELETE has no WHERE clause.
DeleteEveryRepo(w) ==
  /\ pc[w] = "Delete"
  /\ Call(w, "Delete")
  /\ \/ /\ Return(w, Err("delete"))
        /\ UNCHANGED tx
     \/ /\ tx' = [tx EXCEPT ![w].snap = store]
        /\ Goto(w, "DeleteRows")
  /\ UNCHANGED <<jobRepo, tmpPath, repo, rawRefs, refs, defers, errLog, db, syncLogs, history>>

\* tx.Exec(ctx, "DELETE FROM git_refs WHERE repo_id = $1;", j.RepoID)
\* The statement starts: it takes its snapshot of the committed rows.
Delete(w) ==
  /\ pc[w] = "Delete"
  /\ Call(w, "Delete")
  /\ \/ /\ Return(w, Err("delete"))
        /\ UNCHANGED tx
     \/ /\ tx' = [tx EXCEPT ![w].snap = Stored(store, jobRepo[w])]
        /\ Goto(w, "DeleteRows")
  /\ UNCHANGED <<jobRepo, tmpPath, repo, rawRefs, refs, defers, errLog, db, syncLogs, history>>

\* Mutant: the DELETE goes through w.pool instead of tx and is committed at once.
DeleteRowsOnPool(w) ==
  /\ pc[w] = "DeleteRows"
  /\ \/ /\ Return(w, Err("delete"))
        /\ tx' = [tx EXCEPT ![w].snap = {}]
        /\ UNCHANGED store
     \/ /\ ~RowLocked(w, tx[w].snap)
        /\ store' = store \ tx[w].snap
        /\ tx' = [tx EXCEPT ![w].snap = {}]
        /\ Goto(w, "sendBatchGitRefs")
  /\ UNCHANGED <<jobRepo, tmpPath, repo, rawRefs, refs, defers, errLog, jobStatus, applied,
                 lastSync, syncLogs, trace, history>>

\* The statement ends: the rows of the snapshot that are still there are
\* deleted in the transaction; an error (a cancelled context) ends the wait.
DeleteRows(w) ==
  /\ pc[w] = "DeleteRows"
  /\ \/ /\ Return(w, Err("delete"))
        /\ tx' = [tx EXCEPT ![w].snap = {}]
     \/ /\ ~RowLocked(w, tx[w].snap)
        /\ tx' = [tx EXCEPT ![w].del = tx[w].snap, ![w].snap = {}]
        /\ Goto(w, "sendBatchGitRefs")
  /\ UNCHANGED <<jobRepo, tmpPath, repo, rawRefs, refs, defers, errLog, db, syncLogs, trace, history>>

\* Rows are keyed by (repo_id, full_name).
Key(x) == <<x.repo_id, x.full_name>>

\* The COPY cannot insert a row whose key is held by a committed row the
\* transaction has not deleted, or by a row another open transaction inserted.
KeyConflict(w, rows) ==
  \E x \in rows :
    \/ \E y \in store \ tx[w].del : Key(y) = Key(x)
    \/ \E v \in Workers \ {w} :
         tx[v].state = "open" /\ \E y \in tx[v].ins : Key(y) = Key(x)

\* Mutant: the COPY goes through w.pool instead of tx and is committed at once.
sendBatchGitRefsOnPool(w) ==
  /\ pc[w] = "sendBatchGitRefs"
  /\ Call(w, "sendBatchGitRefs")
  /\ LET inputs == Inputs(jobRepo[w], refs[w]) IN
     \/ /\ Return(w, Err("copy"))
        /\ UNCHANGED store
     \/ /\ \A x \in inputs : \A y \in store : Key(y) # Key(x)
        /\ store' = store \cup inputs
        /\ Goto(w, "SetSyncJobStatus")
  /\ UNCHANGED <<local, errLog, jobStatus, applied, lastSync, syncLogs, history>>

\* Mutant: the COPY leaves out the rows that are already stored.
sendBatchGitRefsOnlyNew(w) ==
  /\ pc[w] = "sendBatchGitRefs"
  /\ Call(w, "sendBatchGitRefs")
  /\ LET inputs == Inputs(jobRepo[w], refs[w]) \ store IN
     \/ /\ Return(w, Err("copy"))
        /\ UNCHANGED tx
     \/ /\ ~KeyConflict(w, inputs)
        /\ tx' = [tx EXCEPT ![w].ins = inputs]
        /\ Goto(w, "SetSyncJobStatus")
  /\ UNCHANGED <<jobRepo, tmpPath, repo, rawRefs, refs, defers, errLog, db, syncLogs, history>>

\* w.sendBatchGitRefs(ctx, tx, j, refs): build the inputs, tx.CopyFrom.
sendBatchGitRefs(w) ==
  /\ pc[w] = "sendBatchGitRefs"
  /\ Call(w, "sendBatchGitRefs")
  /\ LET inputs == Inputs(jobRepo[w], refs[w]) IN
     \/ /\ Return(w, Err("copy"))
        /\ UNCHANGED tx
     \/ /\ ~KeyConflict(w, inputs)
        /\ tx' = [tx EXCEPT ![w].ins = inputs]
        /\ Goto(w, "SetSyncJobStatus")
  /\ UNCHANGED <<jobRepo, tmpPath, repo, rawRefs, refs, defers, errLog, db, syncLogs, history>>

\* Mutant: the status is set through w.db, outside the transaction.
SetSyncJobStatusNoTx(w) ==
  /\ pc[w] = "SetSyncJobStatus"
  /\ Call(w, "SetSyncJobStatus")
  /\ \/ /\ Return(w, Err("set status"))
        /\ UNCHANGED jobStatus
     \/ /\ jobStatus' = [jobStatus EXCEPT ![w] = "DONE"]
        /\ Goto(w, "finishLog")
  /\ UNCHANGED <<local, errLog, store, applied, lastSync, syncLogs, history>>

\* w.db.WithTx(tx).SetSyncJobStatus(ctx, {Status: "DONE", ID: j.ID})
SetSyncJobStatus(w) ==
  /\ pc[w] = "SetSyncJobStatus"
  /\ Call(w, "SetSyncJobStatus")
  /\ \/ /\ Return(w, Err("set status"))
        /\ UNCHANGED tx
     \/ /\ tx' = [tx EXCEPT ![w].done = TRUE]
        /\ Goto(w, "finishLog")
  /\ UNCHANGED <<jobRepo, tmpPath, repo, rawRefs, refs, defers, errLog, db, syncLogs, history>>

\* Mutant: a failure of the completion log is ignored.
finishLogIgnored(w) ==
  /\ pc[w] = "finishLog"
  /\ Call(w, "finishLog")
  /\ \/ UNCHANGED syncLogs
     \/ syncLogs' = sendBatchLogMessages(syncLogs, w, "finished")
  /\ Goto(w, "Commit")
  /\ UNCHANGED <<local, errLog, db, history>>

\* Mutant: no completion log is sent.
finishLogSkipped(w) ==
  /\ pc[w] = "finishLog"
  /\ Call(w, "finishLog")
  /\ Goto(w, "Commit")
  /\ UNCHANGED <<local, errLog, db, syncLogs, history>>

\* "finished ... sync" log
finishLog(w) ==
  /\ pc[w] = "finishLog"
  /\ Call(w, "finishLog")
  /\ \/ /\ Return(w, Errorf("log messages", Err("log sink")))
        /\ UNCHANGED syncLogs
     \/ /\ syncLogs' = sendBatchLogMessages(syncLogs, w, "finished")
        /\ Goto(w, "Commit")
  /\ UNCHANGED <<local, errLog, db, history>>

\* Workers with a transaction open on the same repository as w.
Overlapping(w) ==
  {v \in Workers \ {w} : tx[v].state = "open" /\ jobRepo[v] = jobRepo[w]}

\* What is committed once a transaction's writes are.
CommitStore(s, t) == (s \ t.del) \cup t.ins
CommitStatus(st, t) == IF t.done THEN "DONE" ELSE st

\* History of the committed syncs of the repository of w's job: s is the
\* store the commit leaves.  The rows recorded are those left by the first
\* of the consecutive syncs that extracted the same refs.
Synced(ls, w, s) ==
  [ls EXCEPT ![jobRepo[w]] =
     IF @.runs > 0 /\ @.refs = refs[w]
       THEN [@ EXCEPT !.runs = 2]
       ELSE [runs |-> 1, refs |-> refs[w], rows |-> Stored(s, jobRepo[w])]]

\* The transaction is over: its writes are applied or dropped.
Closed(t, state) == [NoTx EXCEPT !.state = state, !.closed = TRUE]

\* Mutant: the error of tx.Commit is dropped and nil returned.
CommitDropsError(w) ==
  /\ pc[w] = "Commit"
  /\ Call(w, "Commit")
  /\ Return(w, nil)
  /\ \/ /\ tx' = [tx EXCEPT ![w] = Closed(@, "aborted")]
        /\ UNCHANGED <<db, rivals>>
     \/ /\ store' = CommitStore(store, tx[w])
        /\ jobStatus' = [jobStatus EXCEPT ![w] = CommitStatus(@, tx[w])]
        /\ applied' = [applied EXCEPT ![w] = TRUE]
        /\ lastSync' = Synced(lastSync, w, CommitStore(store, tx[w]))
        /\ tx' = [v \in Workers |->
                    IF v = w THEN Closed(tx[w], "committed")
                    ELSE [tx[v] EXCEPT !.snap = @ \ tx[w].del]]
        /\ rivals' = [v \in Workers |->
                        IF v \in Overlapping(w)
                          THEN (IF rivals[v] = 0 THEN 1 ELSE 2)
                          ELSE rivals[v]]
  /\ UNCHANGED <<jobRepo, tmpPath, repo, rawRefs, refs, defers, errLog, syncLogs, before>>

\* return tx.Commit(ctx): a Commit that returns an error has committed nothing,
\* and pgx marks the transaction closed either way.
Commit(w) ==
  /\ pc[w] = "Commit"
  /\ Call(w, "Commit")
  /\ \/ /\ Return(w, Err("commit"))
        /\ tx' = [tx EXCEPT ![w] = Closed(@, "aborted")]
        /\ UNCHANGED <<db, rivals>>
     \/ /\ Return(w, nil)
        /\ store' = CommitStore(store, tx[w])
        /\ jobStatus' = [jobStatus EXCEPT ![w] = CommitStatus(@, tx[w])]
        /\ applied' = [applied EXCEPT ![w] = TRUE]
        /\ lastSync' = Synced(lastSync, w, CommitStore(store, tx[w]))
        /\ tx' = [v \in Workers |->
                    IF v = w THEN Closed(tx[w], "committed")
                    ELSE [tx[v] EXCEPT !.snap = @ \ tx[w].del]]
        /\ rivals' = [v \in Workers |->
                        IF v \in Overlapping(w)
                          THEN (IF rivals[v] = 0 THEN 1 ELSE 2)
                          ELSE rivals[v]]
  /\ UNCHANGED <<jobRepo, tmpPath, repo, rawRefs, refs, defers, errLog, syncLogs, before>>

\* Mutant: the error of the rollback becomes the handler's result.
RollbackRaises(w) ==
  /\ pc[w] = "return" /\ defers[w] # <<>> /\ Top(w) = "Rollback"
  /\ Call(w, "Rollback")
  /\ Pop(w)
  /\ IF tx[w].closed
       THEN UNCHANGED <<tx, errLog, ret>>
       ELSE /\ tx' = [tx EXCEPT ![w] = Closed(@, "aborted")]
            /\ \/ UNCHANGED <<errLog, ret>>
               \/ /\ errLog' = [errLog EXCEPT ![w] = @ \cup {"could not rollback transaction"}]
                  /\ ret' = [ret EXCEPT ![w] = Err("rollback")]
  /\ UNCHANGED <<pc, jobRepo, tmpPath, repo, rawRefs, refs, db, syncLogs, history>>

\* Mutant: the error of a rollback is logged also when it is pgx.ErrTxClosed.
RollbackLogsClosed(w) ==
  /\ pc[w] = "return" /\ defers[w] # <<>> /\ Top(w) = "Rollback"
  /\ Call(w, "Rollback")
  /\ Pop(w)
  /\ IF tx[w].closed
       THEN /\ errLog' = [errLog EXCEPT ![w] = @ \cup {"could not rollback transaction"}]
            /\ UNCHANGED tx
       ELSE /\ tx' = [tx EXCEPT ![w] = Closed(@, "aborted")]
            /\ \/ UNCHANGED errLog
               \/ errLog' = [errLog EXCEPT ![w] = @ \cup {"could not rollback transaction"}]
  /\ UNCHANGED <<pc, ret, jobRepo, tmpPath, repo, rawRefs, refs, db, syncLogs, history>>

\* defer func() { if err := tx.Rollback(ctx); err != nil {
\*   if !errors.Is(err, pgx.ErrTxClosed) { w.logger.Err(err)... } } }()
Rollback(w) ==
  /\ pc[w] = "return" /\ defers[w] # <<>> /\ Top(w) = "Rollback"
  /\ Call(w, "Rollback")
  /\ Pop(w)
  /\ IF tx[w].closed
       THEN UNCHANGED <<tx, errLog>>        \* pgx.ErrTxClosed: not logged
       ELSE /\ tx' = [tx EXCEPT ![w] = Closed(@, "aborted")]
            /\ \/ UNCHANGED errLog
               \/ errLog' = [errLog EXCEPT ![w] = @ \cup {"could not rollback transaction"}]
  /\ UNCHANGED <<pc, ret, jobRepo, tmpPath, repo, rawRefs, refs, db, syncLogs, history>>

\* defer repo.Free()
Free(w) ==
  /\ pc[w] = "return" /\ defers[w] # <<>> /\ Top(w) = "Free"
  /\ Call(w, "Free")
  /\ Pop(w)
  /\ repo' = [repo EXCEPT ![w] = "freed"]
  /\ UNCHANGED <<pc, ret, jobRepo, tmpPath, rawRefs, refs, tx, errLog, db, syncLogs, history>>

\* Mutant: the error of the removal becomes the handler's result.
RemoveAllRaises(w) ==
  /\ pc[w] = "return" /\ defers[w] # <<>> /\ Top(w) = "RemoveAll"
  /\ Call(w, "RemoveAll")
  /\ Pop(w)
  /\ \/ /\ tmpPath' = [tmpPath EXCEPT ![w] = FALSE]
        /\ UNCHANGED <<errLog, ret>>
     \/ /\ errLog' = [errLog EXCEPT ![w] = @ \cup {"error cleaning up repo"}]
        /\ ret' = [ret EXCEPT ![w] = Err("remove all")]
        /\ UNCHANGED tmpPath
  /\ UNCHANGED <<pc, jobRepo, repo, rawRefs, refs, tx, db, syncLogs, history>>

\* defer func() { if err := os.RemoveAll(tmpPath); err != nil { w.logger.Err(err)... } }()
RemoveAll(w) ==
  /\ pc[w] = "return" /\ defers[w] # <<>> /\ Top(w) = "RemoveAll"
  /\ Call(w, "RemoveAll")
  /\ Pop(w)
  /\ \/ /\ tmpPath' = [tmpPath EXCEPT ![w] = FALSE]
        /\ UNCHANGED errLog
     \/ /\ errLog' = [errLog EXCEPT ![w] = @ \cup {"error cleaning up repo"}]
        /\ UNCHANGED tmpPath
  /\ UNCHANGED <<pc, ret, jobRepo, repo, rawRefs, refs, tx, db, syncLogs, history>>

\* All deferred calls have run: the handler is about to hand ret to its caller.
Returning(w) == pc[w] = "return" /\ defers[w] = <<>>

\* The handler returns; its locals are gone and the worker is free again.
handleGitRefs(w) ==
  /\ Returning(w)
  /\ pc' = [pc EXCEPT ![w] = "returned"]
  /\ jobRepo' = [jobRepo EXCEPT ![w] = "r1"]
  /\ tmpPath' = [tmpPath EXCEPT ![w] = FALSE]
  /\ repo' = [repo EXCEPT ![w] = "none"]
  /\ rawRefs' = [rawRefs EXCEPT ![w] = {}]
  /\ refs' = [refs EXCEPT ![w] = {}]
  /\ ret' = [ret EXCEPT ![w] = nil]
  /\ tx' = [tx EXCEPT ![w] = NoTx]
  /\ errLog' = [errLog EXCEPT ![w] = {}]
  /\ jobStatus' = [jobStatus EXCEPT ![w] = "QUEUED"]
  /\ syncLogs' = [syncLogs EXCEPT ![w] = NoLogs]
  /\ trace' = [trace EXCEPT ![w] = <<>>]
  /\ before' = [before EXCEPT ![w] = {}]
  /\ applied' = [applied EXCEPT ![w] = FALSE]
  /\ rivals' = [rivals EXCEPT ![w] = 0]
  /\ UNCHANGED <<defers, store, lastSync>>

\* Jobs handled one at a time, each step free to fail.
Alone(w) == \A v \in Workers \ {w} : pc[v] \in {"idle", "returned"}

Next ==
  \E w \in Workers :
    \/ Alone(w) /\ Dequeue(w)
    \/ Alone(w) /\ MkdirTemp(w)
    \/ Alone(w) /\ fetchGitHubTokenFromDB(w)
    \/ Alone(w) /\ cloneRepo(w)
    \/ Alone(w) /\ startLog(w)
    \/ Alone(w) /\ SelectContext(w)
    \/ Alone(w) /\ BeginTx(w)
    \/ Alone(w) /\ Delete(w)
    \/ Alone(w) /\ DeleteRows(w)
    \/ Alone(w) /\ sendBatchGitRefs(w)
    \/ Alone(w) /\ SetSyncJobStatus(w)
    \/ Alone(w) /\ finishLog(w)
    \/ Alone(w) /\ Commit(w)
    \/ Alone(w) /\ Rollback(w)
    \/ Alone(w) /\ Free(w)
    \/ Alone(w) /\ RemoveAll(w)
    \/ Alone(w) /\ handleGitRefs(w)

Spec == Init /\ [][Next]_vars

\* Two jobs for the same repository handled concurrently, one by each
\* worker.  Provisioning and cleanup succeed; every statement of the
\* transaction is free to fail.
SameRepository(w) ==
  /\ pc[w] # "returned"
  /\ jobRepo'[w] = "r1"
  /\ errLog'[w] = {}
  /\ ret'[w] # ret[w] /\ ret'[w] # nil => tx[w].state = "open"

NextConcurrent ==
  \E w \in Workers :
    \/ Dequeue(w) /\ SameRepository(w)
    \/ MkdirTemp(w) /\ SameRepository(w)
    \/ fetchGitHubTokenFromDB(w) /\ SameRepository(w)
    \/ cloneRepo(w) /\ SameRepository(w)
    \/ startLog(w) /\ SameRepository(w)
    \/ SelectContext(w) /\ SameRepository(w)
    \/ BeginTx(w) /\ SameRepository(w)
    \/ Delete(w) /\ SameRepository(w)
    \/ DeleteRows(w) /\ SameRepository(w)
    \/ sendBatchGitRefs(w) /\ SameRepository(w)
    \/ SetSyncJobStatus(w) /\ SameRepository(w)
    \/ finishLog(w) /\ SameRepository(w)
    \/ Commit(w) /\ SameRepository(w)
    \/ Rollback(w) /\ SameRepository(w)
    \/ Free(w) /\ SameRepository(w)
    \/ RemoveAll(w) /\ SameRepository(w)
    \/ handleGitRefs(w) /\ SameRepository(w)

SpecConcurrent == Init /\ [][NextConcurrent]_vars

\* ---------------------------------------------------------------- claims
Running(w) == pc[w] \notin {"idle", "returned"}
Did(w, name) == \E i \in DOMAIN trace[w] : trace[w][i] = name
Times(w, name) == Cardinality({i \in DOMAIN trace[w] : trace[w][i] = name})
\* The extracted refs of the run, as rows of its repository.
Extracted(w) == {InputRow(jobRepo[w], r) : r \in refs[w]}
\* What a reader of the committed store sees of the job's repository.
Visible(w) == Stored(store, jobRepo[w])
Previous(w) == Stored(before[w], jobRepo[w])

\* C1 Atomicity: when a run fails after its DELETE has executed (in the bulk
\* insert, the status update, the completion log or the commit), the handler
\* returns with the transaction aborted and the committed refs of the
\* repository identical to those before the run.
C1_Atomicity ==
  \A w \in Workers :
    Returning(w) /\ ret[w] # nil /\ Did(w, "sendBatchGitRefs") =>
      tx[w].state = "aborted" /\ Visible(w) = Previous(w)

C1_Witness ==
  \E w \in Workers :
    /\ Returning(w) /\ ret[w] = Err("commit")
    /\ Previous(w) # {} /\ Extracted(w) # {} /\ Extracted(w) # Previous(w)

\* C2 Exact replacement: when a run succeeds and no other job has written
\* the repository meanwhile, the committed refs of the repository are exactly
\* the refs extracted in the run.
C2_ExactReplacement ==
  \A w \in Workers :
    Returning(w) /\ ret[w] = nil /\ rivals[w] = 0 => Visible(w) = Extracted(w)

C2_Witness ==
  \E w \in Workers :
    /\ Returning(w) /\ ret[w] = nil
    /\ Previous(w) \ Extracted(w) # {}
    /\ Extracted(w) \ Previous(w) # {}

\* C3 Status and refs are one unit: at every point of a run, either the job
\* is DONE and its replacement of the refs is committed, or the job is not
\* DONE and the refs are the ones from before the run.
C3_StatusWithRefs ==
  \A w \in Workers :
    Running(w) =>
      \/ jobStatus[w] = "DONE" /\ applied[w] /\ Visible(w) = Extracted(w)
      \/ jobStatus[w] # "DONE" /\ ~applied[w] /\ Visible(w) = Previous(w)

C3_Witness ==
  \E w \in Workers :
    /\ Returning(w) /\ Did(w, "finishLog") /\ ret[w] # nil
    /\ jobStatus[w] = "RUNNING" /\ Extracted(w) # Previous(w)

\* C4 (as claimed) Cleanup runs exactly once on every path, as the last call.
C4_CleanupOnEveryPath ==
  \A w \in Workers :
    Returning(w) =>
      Times(w, "RemoveAll") = 1 /\ trace[w][Len(trace[w])] = "RemoveAll"

\* C4 (amended) Cleanup runs exactly once, as the last call before the
\* handler returns, on every path on which the temp directory was created;
\* it does not run when the creation of the temp directory itself fails, and
\* never before the handler's return statement.
C4_CleanupOnceIfCreated ==
  \A w \in Workers :
    /\ pc[w] # "return" => Times(w, "RemoveAll") = 0
    /\ Returning(w) /\ ret[w] = Err("mkdir temp") =>
         trace[w] = <<"MkdirTemp">> /\ ~tmpPath[w]
    /\ Returning(w) /\ ret[w] # Err("mkdir temp") =>
         Times(w, "RemoveAll") = 1 /\ trace[w][Len(trace[w])] = "RemoveAll"

C4_Witness ==
  \E w \in Workers :
    /\ Returning(w) /\ ret[w] = Err("select refs")
    /\ Times(w, "RemoveAll") = 1

\* C5 A failing cleanup changes nothing of the outcome: the call of
\* os.RemoveAll, failing or not, leaves the handler's result, the job's
\* status and the stored refs as they are, and a failure is only logged.
C5_CleanupNeverFailsJob ==
  [][\A w \in Workers :
       trace'[w] = Append(trace[w], "RemoveAll") =>
         /\ ret'[w] = ret[w] /\ jobStatus' = jobStatus /\ store' = store
         /\ \/ errLog'[w] = errLog[w] /\ ~tmpPath'[w]
            \/ errLog'[w] = errLog[w] \cup {"error cleaning up repo"}]_vars

C5_Witness ==
  \E w \in Workers :
    /\ Returning(w) /\ "error cleaning up repo" \in errLog[w]
    /\ ret[w] = nil /\ jobStatus[w] = "DONE"

\* Two jobs of one repository whose transactions overlapped and both
\* committed, w's after v's; neither handler has returned yet.
BothCommitted(w, v) ==
  /\ w # v /\ jobRepo[w] = jobRepo[v]
  /\ pc[w] = "return" /\ ret[w] = nil
  /\ pc[v] = "return" /\ ret[v] = nil
  /\ rivals[w] = 1

\* C6 The last commit wins: after two overlapping jobs of one repository have
\* both committed, the stored refs are exactly the refs of the job that
\* committed last, with no row of the other job.
C6_LastCommitWins ==
  \A w, v \in Workers : BothCommitted(w, v) => Visible(w) = Extracted(w)

\* C7 No partial visibility: while a job's transaction is open, and after it
\* was rolled back, a reader sees the complete refs from before the run; once
\* it has committed, the reader sees the complete extracted refs.
C7_NoPartialVisibility ==
  \A w \in Workers :
    /\ tx[w].state \in {"open", "aborted"} => Visible(w) = Previous(w)
    /\ tx[w].state = "committed" => Visible(w) = Extracted(w)

C7_Witness ==
  \E w \in Workers :
    /\ tx[w].state = "open" /\ tx[w].del # {} /\ Cardinality(tx[w].ins) = 2
    /\ Visible(w) = Previous(w) /\ Previous(w) # tx[w].ins

\* C8 A failed log fails the job: when the start log or the completion log
\* is not emitted, the handler returns an error, the job is not DONE and the
\* stored refs are those from before the run; after a failed start log
\* neither the extraction nor any step of the transaction is executed, and
\* after a failed completion log there is no commit.
C8_LogFailureFailsJob ==
  \A w \in Workers :
    /\ Did(w, "startLog") /\ syncLogs[w].starting = 0 =>
         /\ pc[w] = "return" /\ ret[w] # nil
         /\ jobStatus[w] # "DONE" /\ Visible(w) = Previous(w)
         /\ \A c \in {"SelectContext", "BeginTx", "Delete", "sendBatchGitRefs",
                       "SetSyncJobStatus", "finishLog", "Commit"} : ~Did(w, c)
    /\ Did(w, "finishLog") /\ syncLogs[w].finished = 0 =>
         /\ pc[w] = "return" /\ ret[w] # nil
         /\ jobStatus[w] # "DONE" /\ Visible(w) = Previous(w)
         /\ ~Did(w, "Commit")

C8_Witness ==
  \E w \in Workers :
    /\ Returning(w) /\ Did(w, "finishLog") /\ syncLogs[w].finished = 0
    /\ Extracted(w) # Previous(w)

\* C9 A failure of the DELETE or of the bulk insert is returned as it is:
\* the handler's result is that error, also when the rollback fails in turn,
\* and it returns with the transaction rolled back, the stored refs those
\* from before the run and the job not DONE.
C9_OriginalErrorReturned ==
  \A w \in Workers :
    pc[w] = "return" /\ Did(w, "Delete") /\ ~Did(w, "SetSyncJobStatus") =>
      /\ ret[w] = IF Did(w, "sendBatchGitRefs") THEN Err("copy") ELSE Err("delete")
      /\ Returning(w) =>
           /\ tx[w].state = "aborted" /\ tx[w].closed
           /\ Visible(w) = Previous(w) /\ jobStatus[w] # "DONE"

C9_Witness ==
  \E w \in Workers :
    /\ Returning(w) /\ ret[w] = Err("copy")
    /\ "could not rollback transaction" \in errLog[w]
    /\ Previous(w) # {}

\* C10 Two outcomes: a run ends either with nil returned, the job DONE, the
\* refs replaced and both logs emitted, or with an error returned, the job
\* not DONE and the stored refs those from before the run.
C10_TwoOutcomes ==
  \A w \in Workers :
    Returning(w) =>
      \/ /\ ret[w] = nil /\ jobStatus[w] = "DONE" /\ applied[w]
         /\ Visible(w) = Extracted(w)
         /\ syncLogs[w].starting = 1 /\ syncLogs[w].finished = 1
      \/ /\ ret[w] # nil /\ jobStatus[w] # "DONE" /\ ~applied[w]
         /\ Visible(w) = Previous(w)

C10_Witness ==
  \E w \in Workers :
    /\ Returning(w) /\ ret[w] = nil /\ jobStatus[w] = "DONE"
    /\ syncLogs[w] = [starting |-> 1, finished |-> 1]
    /\ Extracted(w) # Previous(w)

\* C11 Idempotence: when two syncs of one repository commit one after the
\* other and both extracted the same refs, the stored rows of the repository
\* after the second are the rows the first had left, one row for each ref.
C11_Idempotence ==
  \A r \in Repos :
    lastSync[r].runs = 2 =>
      /\ Stored(store, r) = lastSync[r].rows
      /\ Cardinality(Stored(store, r)) = Cardinality(lastSync[r].refs)

C11_Witness ==
  \E w \in Workers :
    /\ Returning(w) /\ ret[w] = nil
    /\ lastSync[jobRepo[w]].runs = 2 /\ lastSync[jobRepo[w]].refs = refs[w]
    /\ Cardinality(refs[w]) = 2

\* The extraction of the run succeeded and returned no ref.
EmptyExtraction(w) ==
  /\ Did(w, "SelectContext") /\ refs[w] = {}
  /\ ~(pc[w] = "return" /\ ret[w] = Err("select refs"))

\* C12 Empty repository: a run whose extraction returns no ref goes on as any
\* other: the insert of zero rows is not refused, and the run returns nil
\* only after it began the transaction, deleted, inserted nothing, set the
\* status and committed, with the job DONE and no row stored for the
\* repository.
C12_EmptyRepository ==
  \A w \in Workers :
    EmptyExtraction(w) =>
      /\ pc[w] = "sendBatchGitRefs" => ~KeyConflict(w, Inputs(jobRepo[w], refs[w]))
      /\ pc[w] = "return" /\ ret[w] = nil =>
           /\ Len(trace[w]) >= 11
           /\ SubSeq(trace[w], 5, 11) =
                <<"SelectContext", "BeginTx", "Delete", "sendBatchGitRefs",
                  "SetSyncJobStatus", "finishLog", "Commit">>
           /\ tx[w].state = "committed"
           /\ jobStatus[w] = "DONE" /\ Visible(w) = {}

C12_Witness ==
  \E w \in Workers :
    /\ Returning(w) /\ ret[w] = nil /\ EmptyExtraction(w)
    /\ Cardinality(Previous(w)) = 2 /\ Visible(w) = {} /\ jobStatus[w] = "DONE"

\* A stored column holds an optional field: NULL exactly when the field is
\* absent, the field's string otherwise.
Translated(ns, col) ==
  /\ (col = NULL) <=> ~ns.Valid
  /\ ns.Valid => col = <<ns.String>>
  /\ ~ns.Valid => col # <<"">>
\* Row x holds ref r of repository repoID.
RowOf(repoID, r, x) ==
  /\ x.repo_id = repoID /\ x.full_name = r.FullName.String
  /\ Translated(r.Hash, x.hash) /\ Translated(r.Remote, x.remote)
  /\ Translated(r.Target, x.target) /\ Translated(r.Type, x.type)
  /\ Translated(r.TagCommitHash, x.tag_commit_hash)

\* C13 Optional fields: every row the bulk insert writes, and every row
\* stored once the run has committed, holds for one extracted ref, in each
\* of hash, remote, target, type and tag_commit_hash, NULL if and only if
\* the field is absent and the field's string otherwise; an absent field is
\* not stored as the empty string nor a present empty string as NULL.
C13_OptionalFields ==
  \A w \in Workers :
    /\ \A x \in tx[w].ins : \E r \in refs[w] : RowOf(jobRepo[w], r, x)
    /\ pc[w] \in {"SetSyncJobStatus", "finishLog", "Commit"} =>
         \A r \in refs[w] : \E x \in tx[w].ins : RowOf(jobRepo[w], r, x)
    /\ pc[w] = "return" /\ ret[w] = nil =>
         /\ \A r \in refs[w] : \E x \in Visible(w) : RowOf(jobRepo[w], r, x)
         /\ \A x \in Visible(w) : \E r \in refs[w] : RowOf(jobRepo[w], r, x)

C13_Witness ==
  \E w \in Workers :
    /\ Returning(w) /\ ret[w] = nil
    /\ \E r \in refs[w] : r.Remote = Present("") /\ ~r.Target.Valid
    /\ \E r \in refs[w] : ~r.Remote.Valid /\ ~r.TagCommitHash.Valid
    /\ \E x \in Visible(w) : x.remote = <<"">> /\ x.target = NULL
    /\ \E x \in Visible(w) : x.remote = NULL /\ x.tag_commit_hash = NULL

\* Ref r is what the extraction made of row.
ExtractedFrom(row, r) ==
  /\ r.FullName = row.FullName /\ r.Hash = row.Hash /\ r.Type = row.Type
  /\ r.TagCommitHash =
       IF row.Type # Present("tag") THEN Absent
       ELSE IF row.CommitFromTag.Valid THEN row.CommitFromTag
       ELSE row.Hash

\* C14 Tag resolution: the extracted refs are the rows the query read, one
\* for one; a ref of type tag has as tag_commit_hash the commit its tag
\* object resolves to when there is one and its own hash otherwise, and a
\* ref of any other type has no tag_commit_hash.
C14_TagResolution ==
  \A w \in Workers :
    /\ Cardinality(refs[w]) = Cardinality(rawRefs[w])
    /\ \A row \in rawRefs[w] : \E r \in refs[w] : ExtractedFrom(row, r)
    /\ \A r \in refs[w] :
         /\ \E row \in rawRefs[w] : ExtractedFrom(row, r)
         /\ r.Type # Present("tag") => ~r.TagCommitHash.Valid

C14_Witness ==
  \E w \in Workers :
    /\ pc[w] = "BeginTx"
    /\ \E row \in rawRefs[w] :
         row.Type = Present("tag") /\ ~row.CommitFromTag.Valid
    /\ \E r \in refs[w] :
         r.Type = Present("tag") /\ r.TagCommitHash = r.Hash /\ r.Hash.Valid
    /\ \E r \in refs[w] : r.Type = Present("branch") /\ r.TagCommitHash = Absent

\* The steps of the handler, in the order of its text, and its deferred calls.
Pipeline ==
  <<"MkdirTemp", "fetchGitHubTokenFromDB", "cloneRepo", "startLog",
    "SelectContext", "BeginTx", "Delete", "sendBatchGitRefs",
    "SetSyncJobStatus", "finishLog", "Commit">>
Release == {"Rollback", "Free", "RemoveAll"}
IsStep(name) == name \notin Release
Steps(t) == SelectSeq(t, IsStep)

\* C15 Step order: the steps a run has executed are a prefix of provision
\* (temp directory, token, clone), start log, extraction, begin, delete,
\* bulk insert, status update, completion log, commit; once a step has
\* failed no further step is executed, only rollback and release; and nil is
\* returned only when all the steps have been executed.
C15_StepOrder ==
  /\ [](\A w \in Workers :
         /\ Len(Steps(trace[w])) <= Len(Pipeline)
         /\ Steps(trace[w]) = SubSeq(Pipeline, 1, Len(Steps(trace[w])))
         /\ \A i, j \in DOMAIN trace[w] :
              i < j /\ trace[w][i] \in Release => trace[w][j] \in Release
         /\ ret[w] # nil => pc[w] = "return"
         /\ pc[w] = "return" /\ ret[w] = nil => Steps(trace[w]) = Pipeline)
  /\ [][\A w \in Workers :
          pc[w] = "return" /\ pc'[w] = "return" =>
            /\ Steps(trace'[w]) = Steps(trace[w])
            /\ ret'[w] = ret[w]]_vars

C15_Witness ==
  \E w \in Workers :
    /\ Returning(w) /\ ret[w] = Err("set status")
    /\ trace[w] = SubSeq(Pipeline, 1, 9) \o <<"Rollback", "Free", "RemoveAll">>

\* C16 (as claimed) A completion log entry is present only if the job ends
\* DONE: no run ends failed with the completion log emitted.
C16_CompletionLogOnlyIfDone ==
  \A w \in Workers :
    Returning(w) /\ syncLogs[w].finished > 0 => jobStatus[w] = "DONE" /\ ret[w] = nil

\* C16 (amended) A job that ends DONE has its completion log entry; the
\* entry is emitted once, after the status update and before the commit, and
\* stays when the commit fails: a run that ends failed with a completion
\* entry present is one whose commit failed, with the transaction aborted
\* and the job not DONE.
C16_CompletionLogBeforeCommit ==
  \A w \in Workers :
    /\ jobStatus[w] = "DONE" => syncLogs[w].finished = 1
    /\ syncLogs[w].finished > 0 =>
         /\ syncLogs[w].finished = 1 /\ Did(w, "SetSyncJobStatus")
         /\ pc[w] \in {"Commit", "return"}
         /\ pc[w] = "return" /\ ret[w] # nil =>
              /\ ret[w] = Err("commit") /\ tx[w].state = "aborted"
              /\ jobStatus[w] # "DONE"

C16_Witness ==
  \E w \in Workers :
    /\ Returning(w) /\ syncLogs[w].finished = 1
    /\ ret[w] = Err("commit") /\ tx[w].state = "aborted"
    /\ jobStatus[w] = "RUNNING" /\ Extracted(w) # Previous(w)

\* Call b was made right after call a.
RightAfter(w, a, b) ==
  \E i \in DOMAIN trace[w] :
    i < Len(trace[w]) /\ trace[w][i] = a /\ trace[w][i + 1] = b

\* C17 No retries: in one run each of clone, extraction, begin, delete, bulk
\* insert, status update and commit is attempted at most once; the start log
\* is sent at most once and only right after a clone that succeeded, the
\* completion log at most once and only right after a status update that
\* succeeded, so the log sink is called at most twice.
C17_NoRetries ==
  \A w \in Workers :
    /\ \A name \in {"cloneRepo", "SelectContext", "BeginTx", "Delete",
                     "sendBatchGitRefs", "SetSyncJobStatus", "Commit",
                     "startLog", "finishLog"} : Times(w, name) <= 1
    /\ syncLogs[w].starting <= Times(w, "startLog")
    /\ syncLogs[w].finished <= Times(w, "finishLog")
    /\ Did(w, "startLog") =>
         RightAfter(w, "cloneRepo", "startLog") /\ repo[w] # "none"
    /\ Did(w, "finishLog") => RightAfter(w, "SetSyncJobStatus", "finishLog")
    /\ pc[w] = "finishLog" => tx[w].done

C17_Witness ==
  \E w \in Workers :
    /\ Returning(w) /\ ret[w] = Err("commit")
    /\ Times(w, "startLog") = 1 /\ Times(w, "finishLog") = 1
    /\ Times(w, "cloneRepo") = 1 /\ Times(w, "Commit") = 1
    /\ syncLogs[w] = [starting |-> 1, finished |-> 1]

\* The handler of w's job takes a step.
Stepped(w) ==
  /\ Running(w) /\ pc'[w] \notin {"idle", "returned"}
  /\ pc'[w] # pc[w] \/ trace'[w] # trace[w]

\* C18 Frame: no step of a run changes the stored refs of a repository other
\* than the job's own or the status of another job; the only change it makes
\* to its own job's status is to DONE, with the commit that returns nil; and
\* a run that fails leaves the job's status and the other repositories' refs
\* as they were when it began.
C18_Frame ==
  /\ [][\A w \in Workers :
          Stepped(w) =>
            /\ \A r \in Repos \ {jobRepo[w]} : Stored(store', r) = Stored(store, r)
            /\ \A v \in Workers \ {w} : jobStatus'[v] = jobStatus[v]
            /\ jobStatus'[w] # jobStatus[w] =>
                 jobStatus'[w] = "DONE" /\ pc[w] = "Commit" /\ ret'[w] = nil]_vars
  /\ [](\A w \in Workers :
         /\ Running(w) =>
              \A r \in Repos \ {jobRepo[w]} : Stored(store, r) = Stored(before[w], r)
         /\ pc[w] = "return" /\ ret[w] # nil => jobStatus[w] = "RUNNING")

C18_Witness ==
  \E w \in Workers :
    /\ Returning(w) /\ ret[w] = nil /\ jobRepo[w] = "r1"
    /\ Previous(w) # {} /\ Visible(w) # Previous(w)
    /\ Stored(store, "r2") # {} /\ Stored(store, "r2") = Stored(before[w], "r2")

\* C19 No transaction is left open: a handler that began a transaction
\* returns with it committed or rolled back; it is committed only when
\* delete, bulk insert, status update and completion log have all succeeded
\* and the commit itself; and the deferred rollback that follows a
\* successful commit changes nothing of the committed data or the result
\* and logs no error.
C19_NoOpenTransaction ==
  /\ [](\A w \in Workers :
         /\ Returning(w) => tx[w].state # "open"
         /\ Returning(w) /\ Did(w, "BeginTx") /\ ret[w] # Err("begin") =>
              /\ tx[w].state \in {"committed", "aborted"} /\ tx[w].closed
              /\ Times(w, "Rollback") = 1
         /\ tx[w].state = "committed" =>
              /\ ret[w] = nil /\ Len(trace[w]) >= 11
              /\ SubSeq(trace[w], 6, 11) =
                   <<"BeginTx", "Delete", "sendBatchGitRefs",
                     "SetSyncJobStatus", "finishLog", "Commit">>
              /\ syncLogs[w].finished = 1
              /\ "could not rollback transaction" \notin errLog[w])
  /\ [][\A w \in Workers :
          tx[w].state = "committed" /\ trace'[w] = Append(trace[w], "Rollback") =>
            /\ store' = store /\ jobStatus' = jobStatus /\ tx' = tx
            /\ errLog' = errLog /\ ret' = ret]_vars

C19_Witness ==
  \E w \in Workers :
    /\ Returning(w) /\ ret[w] = nil /\ Did(w, "Rollback")
    /\ tx[w].state = "committed" /\ errLog[w] = {}
    /\ Visible(w) = Extracted(w) /\ Extracted(w) # Previous(w)

IsRelease(name) == name \in Release
\* What the run has acquired, as far as its calls and its result tell.
Created(w) == Did(w, "MkdirTemp") /\ ~(pc[w] = "return" /\ ret[w] = Err("mkdir temp"))
Cloned(w) ==
  Did(w, "cloneRepo") /\ ~(pc[w] = "return" /\ ret[w] = Errorf("git clone", Err("clone")))
Begun(w) == Did(w, "BeginTx") /\ ~(pc[w] = "return" /\ ret[w] = Err("begin"))

\* C20 Release order: the resources of a run are released in the reverse
\* order of their acquisition: the rollback of the transaction, if one was
\* begun, then the Free of the repository handle, then the removal of the
\* temp directory; the handle is freed exactly once when the clone
\* succeeded and never when it failed.
C20_ReleaseOrder ==
  \A w \in Workers :
    /\ \A i, j \in DOMAIN trace[w] :
         i < j =>
           /\ trace[w][i] = "Free" => trace[w][j] # "Rollback"
           /\ trace[w][i] = "RemoveAll" => trace[w][j] \notin {"Rollback", "Free"}
    /\ Times(w, "Free") <= 1
    /\ Did(w, "Free") <=> repo[w] = "freed"
    /\ ~Cloned(w) => repo[w] = "none" /\ ~Did(w, "Free")
    /\ Returning(w) =>
         /\ SelectSeq(trace[w], IsRelease) =
              (IF Begun(w) THEN <<"Rollback">> ELSE <<>>)
                \o (IF Cloned(w) THEN <<"Free">> ELSE <<>>)
                \o (IF Created(w) THEN <<"RemoveAll">> ELSE <<>>)
         /\ Cloned(w) => repo[w] = "freed"

C20_Witness ==
  \E w \in Workers :
    /\ Returning(w) /\ ret[w] = Err("delete") /\ repo[w] = "freed"
    /\ SelectSeq(trace[w], IsRelease) = <<"Rollback", "Free", "RemoveAll">>
====
